---- MODULE Spec2Model ----
(***************************************************************************)
(* The batched synchronisation engine of the candy-machine CLI:            *)
(* the create_candy_machine / create_candy_machine_configs command and     *)
(* addConfigLines, which uploads the cache's items to the remote program   *)
(* in inner batches, one concurrent task per outer chunk, and records the  *)
(* acknowledged batches in the cache.                                      *)
(*                                                                         *)
(* A step of the model is one run-to-completion piece of the JavaScript    *)
(* program: the code from one suspension (await of a remote call) to the   *)
(* next.  The remote program, the disk and the operating system are the    *)
(* environment: a remote call succeeds or fails, a cache save succeeds or  *)
(* throws, and the process can be killed while it waits.                   *)
(***************************************************************************)
EXTENDS Integers, Sequences, FiniteSets, TLC

\* ------------------------------------------------------------------ bounds
\* The CLI slices by 1000 (outer) and 10 (inner); the model keeps the two
\* sizes as parameters and runs them scaled down, so that several chunks
\* and several batches per chunk exist with a handful of items.
MaxItems == 4
OuterSize == 3
InnerSize == 2
\* Remote collections created for the one cache, at most.
MaxCollections == 2

\* ------------------------------------------------------------ the variables
VARIABLES
  cli,                 \* "v2": lorelabs-cli-v2.ts, "v1": the older CLI
  disk,                \* the persisted cache file
  collections,         \* remote collections created for this cache
  createCalled,        \* the process has called createCandyMachineV2 (v1:
                       \* createConfig)
  lastCmd,             \* what the last process was started as
  pc,                  \* "idle", "creating" (await create), "syncing"
  outcome,             \* how the last process ended, or "running"
  cacheContent,        \* the in-memory cache object of the process
  tasks,               \* one task per outer chunk of the running sync
  addConfigSuccessful, \* the flag of addConfigLines
  calls,               \* per task: the commit requests issued, with results
  visited,             \* per task: the inner batches its loop produced
  startOnChain,        \* indices onChain when the sync run loaded the cache
  saveErr,             \* a saveCache of this process has thrown
  prev                 \* the process before this one: what it was started as
                       \* (cmd); clean, it ran the sync to "done" and every
                       \* commit call it made was acknowledged; acked, a
                       \* commit call of it was acknowledged; failed, a
                       \* commit call of it was rejected

vars == <<cli, disk, collections, createCalled, lastCmd, pc, outcome,
          cacheContent, tasks, addConfigSuccessful, calls, visited,
          startOnChain, saveErr, prev>>

\* --------------------------------------------------------------- the cache
\* cacheContent.program: absent, or an object holding uuid and the handle
\* this CLI reads (candyMachine in v2, config in v1); handle 0: no handle.
NoProgram == [exists |-> FALSE, uuid |-> 0, handle |-> 0]

ProgramOf(u, h) == [exists |-> TRUE, uuid |-> u, handle |-> h]

\* An item record; name and link are supplied by the upload step.
Item(i, oc, vr) ==
  [name |-> <<"name", i>>, link |-> <<"link", i>>, onChain |-> oc, verifyRun |-> vr]

\* No cache object: the process holds none (not started, or killed).
NoCache == [program |-> NoProgram, authority |-> "none", items |-> [i \in {} |-> Item(0, FALSE, FALSE)]]

Min(a, b) == IF a < b THEN a ELSE b

\* Array.from(Array(n).keys()): the indices 0 .. n-1 in order.
Range(n) == [k \in 1..n |-> k - 1]

\* Object.keys(cacheContent.items): the keys are the decimal indices, which
\* JavaScript enumerates in ascending order.
Keys(items) == Range(Cardinality(DOMAIN items))

\* keys[i] for a 0-based index i.
KeyAt(keys, i) == keys[i + 1]

\* Array.prototype.slice(from, to) on a 0-based array.
Slice(arr, from, to) ==
  IF from >= Min(to, Len(arr)) THEN <<>> ELSE SubSeq(arr, from + 1, Min(to, Len(arr)))

\* helpers/various chunks(array, size): consecutive slices of size `size`.
chunks(array, size) ==
  [k \in 1..((Len(array) + size - 1) \div size) |->
     Slice(array, (k - 1) * size, k * size)]

\* helpers/cache loadCache: the object read from the cache file.
loadCache(d) == d

\* helpers/cache saveCache(cacheContent): the file after the call; `ok`
\* FALSE: the write throws and the file is left as it was.
saveCache(ok, cc, d) == IF ok THEN cc ELSE d

SeqToSet(s) == {s[k] : k \in 1..Len(s)}

OnChainSet(cc) == {i \in DOMAIN cc.items : cc.items[i].onChain}

\* ------------------------------------------------------ one inner batch
\* Mutant: the slice end is off by one, slice(offset, offset + 10 + 1).
Indexes_OffByOne(allIndexesInSlice, offset) ==
  Slice(allIndexesInSlice, offset, offset + InnerSize + 1)

\* const indexes = allIndexesInSlice.slice(offset, offset + 10)
Indexes(allIndexesInSlice, offset) ==
  Slice(allIndexesInSlice, offset, offset + InnerSize)

\* indexes.filter(i => cacheContent.items[keys[i]].onChain || false)
OnChainOf(cc, indexes) ==
  SelectSeq(indexes, LAMBDA i : cc.items[KeyAt(Keys(cc.items), i)].onChain)

\* Mutant: the count is compared with the batch size, not with the length of
\* this batch: a short last batch is always submitted.
IsPending_FixedSize(cc, indexes) == Len(OnChainOf(cc, indexes)) # InnerSize

\* Mutant: the idempotence check is dropped, every batch is submitted.
IsPending_Always(cc, indexes) == TRUE

\* Mutant: the batch is submitted only when none of its indices is onChain.
IsPending_NoneOnChain(cc, indexes) == Len(OnChainOf(cc, indexes)) = 0

\* if (onChain.length != indexes.length): the batch is submitted
IsPending(cc, indexes) == Len(OnChainOf(cc, indexes)) # Len(indexes)

\* Mutant: only the indices still pending are sent, from the first of them.
Request_PendingOnly(cc, indexes) ==
  LET pending == SelectSeq(indexes,
                   LAMBDA i : ~cc.items[KeyAt(Keys(cc.items), i)].onChain) IN
  [ind     |-> KeyAt(Keys(cc.items), pending[1]),
   indexes |-> indexes,
   configs |-> [k \in 1..Len(pending) |->
                  [uri  |-> cc.items[KeyAt(Keys(cc.items), pending[k])].link,
                   name |-> cc.items[KeyAt(Keys(cc.items), pending[k])].name]],
   handle  |-> cc.program.handle,
   ret     |-> "pending"]

\* The arguments of anchorProgram.rpc.addConfigLines(ind, configs, {accounts});
\* ret is the result of the call once it has returned.
Request(cc, indexes) ==
  [ind     |-> KeyAt(Keys(cc.items), indexes[1]),
   indexes |-> indexes,
   configs |-> [k \in 1..Len(indexes) |->
                  [uri  |-> cc.items[KeyAt(Keys(cc.items), indexes[k])].link,
                   name |-> cc.items[KeyAt(Keys(cc.items), indexes[k])].name]],
   handle  |-> cc.program.handle,
   ret     |-> "pending"]

\* Mutant: keys.forEach instead of indexes.forEach, every item is marked.
MarkOnChain_All(v, cc, indexes) ==
  [cc EXCEPT !.items =
     [key \in DOMAIN cc.items |->
        [cc.items[key] EXCEPT !.onChain = TRUE,
                              !.verifyRun = IF v = "v2" THEN FALSE ELSE @]]]

\* Mutant: onChain is assigned for every item, true inside the batch and
\* false outside it.
MarkOnChain_Resets(v, cc, indexes) ==
  [cc EXCEPT !.items =
     [key \in DOMAIN cc.items |->
        [cc.items[key] EXCEPT
           !.onChain = \E k \in 1..Len(indexes) : KeyAt(Keys(cc.items), indexes[k]) = key]]]

\* Mutant: the record of a committed index is replaced by a new one that
\* holds the flags only, its name and link are lost.
MarkOnChain_Replaces(v, cc, indexes) ==
  [cc EXCEPT !.items =
     [key \in DOMAIN cc.items |->
        IF \E k \in 1..Len(indexes) : KeyAt(Keys(cc.items), indexes[k]) = key
        THEN [name      |-> <<"name", -1>>,
              link      |-> <<"link", -1>>,
              onChain   |-> TRUE,
              verifyRun |-> IF v = "v2" THEN FALSE ELSE cc.items[key].verifyRun]
        ELSE cc.items[key]]]

\* indexes.forEach(i => { items[keys[i]].onChain = true; [v2:] verifyRun = false })
MarkOnChain(v, cc, indexes) ==
  [cc EXCEPT !.items =
     [key \in DOMAIN cc.items |->
        IF \E k \in 1..Len(indexes) : KeyAt(Keys(cc.items), indexes[k]) = key
        THEN [cc.items[key] EXCEPT !.onChain = TRUE,
                                   !.verifyRun = IF v = "v2" THEN FALSE ELSE @]
        ELSE cc.items[key]]]

\* Mutant: the marking is done before the call, so a rejected batch is
\* left marked.
OnCommitFailure_Marked(cc, indexes) ==
  [cc EXCEPT !.items =
     [key \in DOMAIN cc.items |->
        IF \E k \in 1..Len(indexes) : KeyAt(Keys(cc.items), indexes[k]) = key
        THEN [cc.items[key] EXCEPT !.onChain = TRUE]
        ELSE cc.items[key]]]

\* catch (err) { console.error(...); addConfigSuccessful = false }: the cache
\* object is not touched.
OnCommitFailure(cc, indexes) == cc

\* The for loop of one chunk task from `offset` on, up to the first batch it
\* submits (where the task awaits the call) or to the end of the slice.
\* seen: the batches the loop produced on the way, the submitted one included.
RECURSIVE RunLoop(_, _, _)
RunLoop(cc, allIndexesInSlice, offset) ==
  IF ~(offset < Len(allIndexesInSlice))
  THEN [offset |-> offset, seen |-> <<>>, st |-> "done"]
  ELSE LET indexes == Indexes(allIndexesInSlice, offset) IN
       IF IsPending(cc, indexes)
       THEN [offset |-> offset, seen |-> <<indexes>>, st |-> "await"]
       ELSE LET r == RunLoop(cc, allIndexesInSlice, offset + InnerSize)
            IN  [r EXCEPT !.seen = <<indexes>> \o @]

\* ------------------------------------------------------- addConfigLines
\* Mutant: the handle is tested instead of the program object.
ProgramExists_Handle(cc) == cc.program.exists /\ cc.program.handle # 0

\* if (cacheContent.program): the creation command refuses such a cache.
ProgramExists(cc) == cc.program.exists

\* Mutant: only the program object is tested, not its candyMachine field.
HasHandle_Program(cc) == cc.program.exists

\* const candyMachine = cacheContent.program.candyMachine (a TypeError when
\* program is absent); if (!candyMachine) throw
HasHandle(cc) == cc.program.exists /\ cc.program.handle # 0

\* Mutant: the wait only resolves when there was at least one chunk task.
AllDone_NonEmpty(ts) == ts # <<>> /\ \A c \in DOMAIN ts : ts[c].st = "done"

\* await Promise.all(...): resolved when every chunk task has finished (at
\* once when there is none).
AllDone(ts) == \A c \in DOMAIN ts : ts[c].st = "done"

\* The state the process is left in when its current piece of code ends:
\* with a task still awaiting, the process is suspended in Promise.all; with
\* every task done, Promise.all resolves and the finally block saves the
\* cache (finalOk: the save succeeds), then "Done. Successful = ..." is logged
\* ("done").  A throwing final save leaves addConfigLines by the exception
\* ("finalSaveFailed").
Settle(cc, d, ts, cl, vs, succ, se) ==
  /\ cacheContent' = cc
  /\ tasks' = ts
  /\ calls' = cl
  /\ visited' = vs
  /\ addConfigSuccessful' = succ
  /\ IF AllDone(ts)
     THEN \E finalOk \in BOOLEAN :
            /\ disk' = saveCache(finalOk, cc, d)
            /\ saveErr' = (se \/ ~finalOk)
            /\ pc' = "idle"
            /\ outcome' = IF finalOk THEN "done" ELSE "finalSaveFailed"
     ELSE /\ disk' = d
          /\ saveErr' = se
          /\ pc' = "syncing"
          /\ outcome' = "running"

\* addConfigLines on the cache file d, up to its first suspension: the cache
\* is loaded, the handle checked, and every chunk task runs to its first await.
addConfigLines(d, se) ==
  LET cc == loadCache(d) IN
  IF ~HasHandle(cc)
  THEN /\ cacheContent' = cc
       /\ disk' = d
       /\ tasks' = <<>>
       /\ calls' = <<>>
       /\ visited' = <<>>
       /\ addConfigSuccessful' = TRUE
       /\ saveErr' = se
       /\ pc' = "idle"
       /\ outcome' = "missingConfig"
  ELSE LET slices == chunks(Range(Len(Keys(cc.items))), OuterSize)
           loops  == [c \in DOMAIN slices |-> RunLoop(cc, slices[c], 0)]
       IN  Settle(cc, d,
                  [c \in DOMAIN slices |->
                     [slice |-> slices[c], offset |-> loops[c].offset, st |-> loops[c].st]],
                  [c \in DOMAIN slices |->
                     IF loops[c].st = "await"
                     THEN <<Request(cc, Indexes(slices[c], loops[c].offset))>>
                     ELSE <<>>],
                  [c \in DOMAIN slices |-> loops[c].seen],
                  TRUE, se)

\* The commit calls of the process: <<task, position in the task's calls>>.
AllCalls == UNION {{<<c, k>> : k \in 1..Len(calls[c])} : c \in DOMAIN calls}

CallAt(ck) == calls[ck[1]][ck[2]]

\* What a new process records about the one before it.
NewProcess(cmd) ==
  /\ pc = "idle"
  /\ lastCmd' = cmd
  /\ prev' = [cmd    |-> lastCmd,
               clean  |-> outcome = "done" /\ \A ck \in AllCalls : CallAt(ck).ret = "ok",
               acked  |-> \E ck \in AllCalls : CallAt(ck).ret = "ok",
               failed |-> \E ck \in AllCalls : CallAt(ck).ret = "err"]
  /\ startOnChain' = OnChainSet(loadCache(disk))
  /\ cli' = cli

\* A process that ends before any remote call, by the error `err`.
Refused(err) ==
  /\ pc' = "idle"
  /\ outcome' = err
  /\ cacheContent' = loadCache(disk)
  /\ tasks' = <<>>
  /\ calls' = <<>>
  /\ visited' = <<>>
  /\ addConfigSuccessful' = TRUE
  /\ saveErr' = FALSE
  /\ createCalled' = FALSE
  /\ UNCHANGED <<disk, collections>>

\* The command create_candy_machine (v1: create_candy_machine_configs) up to
\* its call of createCandyMachineV2 (v1: createConfig).  loadOk FALSE: loading
\* the wallet, the program or the settings fails; nothing has been done yet.
CreateCandyMachine(loadOk) ==
  /\ NewProcess("create")
  /\ LET cc == loadCache(disk) IN
     IF ProgramExists(cc) THEN Refused("programExists")
     ELSE IF Len(Keys(cc.items)) = 0 THEN Refused("noItems")
     ELSE IF ~loadOk THEN Refused("loadFailed")
     ELSE /\ collections < MaxCollections
          /\ pc' = "creating"
          /\ outcome' = "running"
          /\ cacheContent' = cc
          /\ createCalled' = TRUE
          /\ tasks' = <<>>
          /\ calls' = <<>>
          /\ visited' = <<>>
          /\ addConfigSuccessful' = TRUE
          /\ saveErr' = FALSE
          /\ UNCHANGED <<disk, collections>>

\* createCandyMachineV2 returns.  On success the handle is written into the
\* cache object and saved, and addConfigLines is called; a rejected call or
\* a throwing save ends the command by the rethrown error.
CreateReturn(ok, saveOk) ==
  /\ pc = "creating"
  /\ UNCHANGED <<cli, lastCmd, prev, startOnChain, createCalled>>
  /\ IF ~ok
     THEN /\ pc' = "idle"
          /\ outcome' = "createFailed"
          /\ UNCHANGED <<disk, collections, cacheContent, tasks, calls, visited,
                         addConfigSuccessful, saveErr>>
     ELSE LET cc1 == [cacheContent EXCEPT
                        !.program = ProgramOf(collections + 1, collections + 1),
                        !.authority = "wallet"]
          IN  /\ collections' = collections + 1
              /\ IF ~saveOk
                 THEN /\ pc' = "idle"
                      /\ outcome' = "saveFailed"
                      /\ cacheContent' = cc1
                      /\ saveErr' = TRUE
                      /\ UNCHANGED <<disk, tasks, calls, visited, addConfigSuccessful>>
                 ELSE addConfigLines(saveCache(TRUE, cc1, disk), FALSE)

\* A call of addConfigLines on the persisted cache: the sync run on its own.
CallAddConfigLines ==
  /\ NewProcess("sync")
  /\ createCalled' = FALSE
  /\ UNCHANGED collections
  /\ addConfigLines(disk, FALSE)

\* Mutant: the call is not awaited, the loop goes on while it is in flight.
Returned_NotAwaited(cs, ok) == cs

\* await anchorProgram.rpc.addConfigLines(...): the task resumes when its
\* call, the last it issued, has resolved (ok) or rejected.
Returned(cs, ok) == [cs EXCEPT ![Len(cs)].ret = IF ok THEN "ok" ELSE "err"]

\* Mutant: saveCache is called before the forEach that marks the batch.
Persisted_BeforeMark(ok, saveOk, before, after, d) ==
  IF ok THEN saveCache(saveOk, before, d) ELSE d

\* The cache file after the continuation of a commit call: on ok the marked
\* cache object `after` is saved (saveOk), on a rejection nothing is saved.
Persisted(ok, saveOk, before, after, d) ==
  IF ok THEN saveCache(saveOk, after, d) ELSE d

\* console.log(`Done. Successful = ${addConfigSuccessful}`): what the run
\* reports when it ends.
Report == [successful |-> addConfigSuccessful]

\* The commit call of task c returns: ok, or rejected.  On ok the batch is
\* marked and the cache saved (saveOk); a rejection, or a throwing save, is
\* caught and clears addConfigSuccessful.  The task's loop then goes on to its
\* next await or to its end.
CommitReturn(c, ok, saveOk) ==
  /\ pc = "syncing"
  /\ c \in DOMAIN tasks
  /\ tasks[c].st = "await"
  /\ UNCHANGED <<cli, lastCmd, prev, startOnChain, collections, createCalled>>
  /\ LET t       == tasks[c]
         indexes == Indexes(t.slice, t.offset)
         cc1     == IF ok THEN MarkOnChain(cli, cacheContent, indexes)
                          ELSE OnCommitFailure(cacheContent, indexes)
         saved   == ok /\ saveOk
         d1      == Persisted(ok, saveOk, cacheContent, cc1, disk)
         r       == RunLoop(cc1, t.slice, t.offset + InnerSize)
         returned == Returned(calls[c], ok)
     IN  Settle(cc1, d1,
                [tasks EXCEPT ![c] = [slice |-> t.slice, offset |-> r.offset, st |-> r.st]],
                [calls EXCEPT ![c] = IF r.st = "await"
                                     THEN Append(returned, Request(cc1, Indexes(t.slice, r.offset)))
                                     ELSE returned],
                [visited EXCEPT ![c] = @ \o r.seen],
                addConfigSuccessful /\ saved,
                saveErr \/ (ok /\ ~saveOk))

\* The process is killed while it waits for a remote call.
Crash ==
  /\ pc # "idle"
  /\ pc' = "idle"
  /\ outcome' = "crashed"
  /\ cacheContent' = NoCache
  /\ UNCHANGED <<cli, disk, collections, createCalled, lastCmd, tasks,
                 addConfigSuccessful, calls, visited, startOnChain, saveErr,
                 prev>>

\* -------------------------------------------------------- specification
\* The cache file a process can find: any number of uploaded items, each
\* committed or not by an earlier run and flagged verified by the verify
\* command; no program, a program with the handle of the collection created
\* earlier, or a program object without the handle this CLI reads.
InitCaches ==
  { [program |-> p, authority |-> IF p.exists THEN "wallet" ELSE "none",
     items |-> [i \in 0..(noc[1] - 1) |-> Item(i, i \in noc[2], TRUE)]] :
       p \in {NoProgram, ProgramOf(1, 1), ProgramOf(1, 0)},
       noc \in {x \in (0..MaxItems) \X (SUBSET (0..(MaxItems - 1))) :
                  x[2] \subseteq 0..(x[1] - 1)} }

Init ==
  /\ cli \in {"v1", "v2"}
  /\ disk \in InitCaches
  /\ collections = IF disk.program.exists THEN 1 ELSE 0
  /\ createCalled = FALSE
  /\ lastCmd = "none"
  /\ pc = "idle"
  /\ outcome = "none"
  /\ cacheContent = NoCache
  /\ tasks = <<>>
  /\ addConfigSuccessful = TRUE
  /\ calls = <<>>
  /\ visited = <<>>
  /\ startOnChain = OnChainSet(disk)
  /\ saveErr = FALSE
  /\ prev = [cmd |-> "none", clean |-> FALSE, acked |-> FALSE, failed |-> FALSE]

\* A run has at most MaxItems chunk tasks.
Next ==
  \/ \E loadOk \in BOOLEAN : CreateCandyMachine(loadOk)
  \/ \E ok \in BOOLEAN : \E saveOk \in (IF ok THEN BOOLEAN ELSE {TRUE}) :
       CreateReturn(ok, saveOk)
  \/ CallAddConfigLines
  \/ \E c \in 1..MaxItems : \E ok \in BOOLEAN :
       \E saveOk \in (IF ok THEN BOOLEAN ELSE {TRUE}) : CommitReturn(c, ok, saveOk)
  \/ Crash

Spec == Init /\ [][Next]_vars

\* The pending commit call of chunk task c returns.
CallReturns(c) ==
  \E ok \in BOOLEAN : \E saveOk \in (IF ok THEN BOOLEAN ELSE {TRUE}) :
     CommitReturn(c, ok, saveOk)

\* The same program where every remote commit call eventually returns: the
\* event loop then resumes the chunk task that awaits it.
LiveSpec == Spec /\ \A c \in 1..MaxItems : WF_vars(CallReturns(c))

\* ------------------------------------------------------------ the claims
\* The indices of the batches whose commit call returned success.
AckedSet ==
  UNION {SeqToSet(CallAt(ck).indexes) : ck \in {x \in AllCalls : CallAt(x).ret = "ok"}}

\* The process has entered the loop of addConfigLines (and not been killed).
InSync == outcome \in {"running", "done", "finalSaveFailed"} /\ pc # "creating"

\* addConfigLines has run to its end: every chunk task has finished.
RunEnded == outcome \in {"done", "finalSaveFailed"}

\* C1: in memory and in the persisted cache, a record is onChain only if it
\* was onChain when the process loaded the cache or a commit call whose batch
\* holds its index returned success.
C1_OnChainOnlyIfAcknowledged ==
  /\ OnChainSet(disk) \subseteq (startOnChain \cup AckedSet)
  /\ OnChainSet(cacheContent) \subseteq (startOnChain \cup AckedSet)

\* A run in which one batch was acknowledged and persisted while a record of a
\* rejected batch is still pending, in memory and on disk.
C1_Witness ==
  /\ RunEnded
  /\ \E i \in OnChainSet(disk) : i \notin startOnChain
  /\ \E ck \in AllCalls :
       /\ CallAt(ck).ret = "err"
       /\ \E i \in SeqToSet(CallAt(ck).indexes) :
            i \notin OnChainSet(disk) /\ i \notin OnChainSet(cacheContent)

\* C2: a sync run that follows a completed run whose commit calls were all
\* acknowledged issues no commit call and never clears addConfigSuccessful.
C2_SecondRunIdle ==
  (lastCmd = "sync" /\ prev.clean) =>
     /\ AllCalls = {}
     /\ addConfigSuccessful
     /\ RunEnded

\* The second run has ended with "done" after a first run that committed
\* batches, all acknowledged: the cache holds items, all onChain.
C2_Witness ==
  /\ lastCmd = "sync" /\ prev.clean /\ prev.acked /\ outcome = "done"
  /\ DOMAIN disk.items # {}
  /\ OnChainSet(disk) = DOMAIN disk.items

\* C3 as stated: no commit request of a run holds an index that was onChain
\* when the run started.
C3_OnlyPendingIndicesSubmitted ==
  \A ck \in AllCalls : SeqToSet(CallAt(ck).indexes) \cap startOnChain = {}

\* C3, amended: a run submits only inner batches that hold an index still
\* pending, each such batch whole; a batch whose indices are all onChain gets
\* no call.
C3_OnlyPendingBatchesSubmitted ==
  \A ck \in AllCalls :
     /\ ~(SeqToSet(CallAt(ck).indexes) \subseteq startOnChain)
     /\ \E k \in 1..Len(visited[ck[1]]) : visited[ck[1]][k] = CallAt(ck).indexes

\* A resumed run: a batch with one record committed and one pending has been
\* submitted whole, and a batch already committed has been skipped.
C3_Witness ==
  /\ InSync
  /\ \E ck \in AllCalls :
       /\ SeqToSet(CallAt(ck).indexes) \cap startOnChain # {}
       /\ ~(SeqToSet(CallAt(ck).indexes) \subseteq startOnChain)
  /\ \E c \in DOMAIN visited : \E k \in 1..Len(visited[c]) :
       /\ SeqToSet(visited[c][k]) \subseteq startOnChain
       /\ \A j \in 1..Len(calls[c]) : calls[c][j].indexes # visited[c][k]

\* C4: in a sync run every record of a batch whose call succeeded is onChain,
\* and every record of a batch whose call failed has the onChain value it had
\* before the call; at "done" the persisted cache says the same.
C4_FailureIsolation ==
  InSync =>
    \A ck \in AllCalls : \A i \in SeqToSet(CallAt(ck).indexes) :
       /\ CallAt(ck).ret = "ok" =>
            /\ cacheContent.items[i].onChain
            /\ outcome = "done" => disk.items[i].onChain
       /\ CallAt(ck).ret = "err" =>
            /\ cacheContent.items[i].onChain = (i \in startOnChain)
            /\ outcome = "done" => disk.items[i].onChain = (i \in startOnChain)

\* A finished run with an acknowledged batch and a rejected batch that holds a
\* record still pending.
C4_Witness ==
  /\ outcome = "done"
  /\ \E ck \in AllCalls : CallAt(ck).ret = "ok"
  /\ \E ck \in AllCalls :
       /\ CallAt(ck).ret = "err"
       /\ \E i \in SeqToSet(CallAt(ck).indexes) : ~disk.items[i].onChain

\* C5: the creation command started on a cache whose program is set ends with
\* the error, calls neither createCandyMachineV2 nor addConfigLines, and
\* leaves the cache file as it was.
C5_NoDoubleCreation ==
  [][(pc = "idle" /\ lastCmd' = "create" /\ disk.program.exists) =>
       /\ pc' = "idle"
       /\ outcome' = "programExists"
       /\ ~createCalled'
       /\ collections' = collections
       /\ calls' = <<>>
       /\ disk' = disk]_vars

\* The command has been refused on a cache with a program.
C5_Witness ==
  /\ lastCmd = "create" /\ outcome = "programExists"
  /\ disk.program.exists /\ ~createCalled /\ calls = <<>>

\* C6: at most one remote collection is ever created for the cache, and no
\* commit call is issued unless the persisted cache holds a handle.
C6_AtMostOneCollection ==
  /\ collections <= 1
  /\ AllCalls # {} => HasHandle(disk)

\* C7: the command, invoked again after an invocation of it in which a batch
\* failed, is not refused: it starts a sync that re-submits the failed batches.
C7_RetryByRerun ==
  (lastCmd = "create" /\ prev.cmd = "create" /\ prev.failed) =>
     outcome # "programExists"

\* C8: wherever the run can be interrupted (suspended on a remote call, or at
\* its end) the persisted cache has every acknowledged record onChain.
C8_DurableProgress ==
  (pc = "syncing" \/ outcome = "done") => AckedSet \subseteq OnChainSet(disk)

\* The same, for the runs in which no saveCache has thrown.
DurableWhileSavesSucceed ==
  ((pc = "syncing" \/ outcome = "done") /\ ~saveErr) => AckedSet \subseteq OnChainSet(disk)

\* C9: no step resets onChain: not in the persisted cache, over any sequence
\* of processes, and not in the cache object of a running process.
C9_OnChainMonotone ==
  [][/\ OnChainSet(disk) \subseteq OnChainSet(disk')
     /\ (pc # "idle" /\ outcome' # "crashed") =>
           OnChainSet(cacheContent) \subseteq OnChainSet(cacheContent')]_vars

\* A finished run on a cache with a committed record has committed another
\* batch and left a third record pending.
C9_Witness ==
  /\ outcome = "done"
  /\ startOnChain # {} /\ AckedSet # {}
  /\ \E i \in DOMAIN disk.items : ~disk.items[i].onChain

RECURSIVE Flatten(_)
\* The concatenation of a sequence of sequences.
Flatten(ss) == IF ss = <<>> THEN <<>> ELSE Head(ss) \o Flatten(Tail(ss))

\* b is i, i+1, i+2, ...
Contiguous(b) == \A k \in 1..(Len(b) - 1) : b[k + 1] = b[k] + 1

\* C10: the inner batches a run generates are contiguous ranges of length at
\* most InnerSize, the outer chunks hold at most OuterSize indices, their
\* concatenation in order is 0 .. N-1, and N = 0 yields no batch.
C10_PartitionCovers ==
  InSync =>
    /\ \A c \in DOMAIN tasks : Len(tasks[c].slice) <= OuterSize
    /\ \A c \in DOMAIN visited : \A k \in 1..Len(visited[c]) :
         /\ Len(visited[c][k]) >= 1
         /\ Len(visited[c][k]) <= InnerSize
         /\ Contiguous(visited[c][k])
    /\ \A c \in DOMAIN visited :
         \E n \in 0..Len(tasks[c].slice) :
            Flatten(visited[c]) = SubSeq(tasks[c].slice, 1, n)
    /\ RunEnded =>
         Flatten([c \in DOMAIN visited |-> Flatten(visited[c])])
            = Range(Cardinality(DOMAIN cacheContent.items))
    /\ DOMAIN cacheContent.items = {} => visited = <<>>

\* A finished run over two chunks, the first of which has two inner batches.
C10_Witness ==
  /\ RunEnded
  /\ Len(visited) = 2
  /\ Len(visited[1]) = 2
  /\ Len(visited[2]) = 1

\* Commit calls of the run that were rejected.
FailedCalls == {ck \in AllCalls : CallAt(ck).ret = "err"}

\* C11: the report of a finished run carries the numbers of batches
\* attempted, succeeded and failed, with succeeded + failed = attempted, and
\* the run is reported successful exactly when failed = 0.
C11_ReportCarriesCounts ==
  outcome = "done" =>
    /\ {"attempted", "succeeded", "failed"} \subseteq DOMAIN Report
    /\ Report.attempted = Cardinality(AllCalls)
    /\ Report.failed = Cardinality(FailedCalls)
    /\ Report.succeeded + Report.failed = Report.attempted
    /\ Report.successful <=> (Report.failed = 0)

\* What the boolean of the report does tell: no batch of the run went through
\* the catch block, by a rejected call or by a save that threw.
ReportedSuccessIffNoCatch ==
  outcome = "done" => (Report.successful <=> (FailedCalls = {} /\ ~saveErr))

\* Commit calls issued so far by chunk task c.
IssuedBy(cs, c) == IF c \in DOMAIN cs THEN Len(cs[c]) ELSE 0

\* C12: a cache save that fails during a run is fatal: once a save has thrown,
\* the run issues no further commit call and does not end with the ordinary
\* report.
C12_SaveFailureFatal ==
  [][saveErr' =>
       /\ \A c \in DOMAIN calls' : IssuedBy(calls', c) <= IssuedBy(calls, c)
       /\ outcome' # "done"]_vars

\* C13: a sync run on a cache without a collection handle (no program, or a
\* program without handle) fails at once with an error: no commit call is
\* issued and neither the loaded cache object nor the cache file is changed.
C13_MissingHandleFailsFast ==
  [][(/\ pc = "idle"
      /\ lastCmd' = "sync"
      /\ ~(disk.program.exists /\ disk.program.handle # 0))
     => /\ pc' = "idle"
        /\ outcome' = "missingConfig"
        /\ calls' = <<>>
        /\ tasks' = <<>>
        /\ disk' = disk
        /\ cacheContent' = disk]_vars

\* A sync run refused on a cache whose program has no handle and that holds a
\* pending item.
C13_Witness ==
  /\ lastCmd = "sync"
  /\ outcome = "missingConfig"
  /\ disk.program.exists
  /\ disk.program.handle = 0
  /\ \E i \in DOMAIN disk.items : ~disk.items[i].onChain
  /\ calls = <<>>

\* The k-th commit call of chunk task c is acknowledged in this step.
Acknowledged(c, k) ==
  /\ pc = "syncing"
  /\ c \in DOMAIN calls'
  /\ k <= Len(calls'[c])
  /\ calls[c][k].ret = "pending"
  /\ calls'[c][k].ret = "ok"

\* C14 as stated: on an acknowledged commit every index of the batch becomes
\* onChain; verifyRun is cleared for the indices that were already onChain
\* before the commit and left as it was for the others.
C14_VerifyRunClearedIfRecommitted ==
  [][\A ck \in AllCalls : Acknowledged(ck[1], ck[2]) =>
       \A i \in SeqToSet(CallAt(ck).indexes) :
          /\ cacheContent'.items[i].onChain
          /\ cacheContent'.items[i].verifyRun =
                IF cacheContent.items[i].onChain
                THEN FALSE
                ELSE cacheContent.items[i].verifyRun]_vars

\* What the marking does in each command: every index of the batch becomes
\* onChain; v2 sets verifyRun to false for every index of the batch, v1 leaves
\* verifyRun as it was; the items outside the batch are not changed.
MarkingOnAcknowledge ==
  [][\A ck \in AllCalls : Acknowledged(ck[1], ck[2]) =>
       \A i \in DOMAIN cacheContent.items :
          IF i \in SeqToSet(CallAt(ck).indexes)
          THEN /\ cacheContent'.items[i].onChain
               /\ cacheContent'.items[i].verifyRun =
                     IF cli = "v2" THEN FALSE ELSE cacheContent.items[i].verifyRun
          ELSE cacheContent'.items[i] = cacheContent.items[i]]_vars

\* The first half of that property alone: a record that was onChain and verified before
\* the commit has verifyRun cleared by it.
RecommittedIsCleared ==
  [][\A ck \in AllCalls : Acknowledged(ck[1], ck[2]) =>
       \A i \in SeqToSet(CallAt(ck).indexes) :
          cacheContent.items[i].onChain => ~cacheContent'.items[i].verifyRun]_vars

\* C15 as stated: a sync run always ends having performed the final save and
\* emitted its report.
C15_AlwaysReports == RunEnded => (outcome = "done" /\ disk = cacheContent)

\* C15: when every commit call eventually returns, a sync run eventually
\* terminates; it ends with every chunk task finished, every batch reached and
\* no call in flight, and either the final save is done and the report is
\* emitted, or that save has thrown and the run ends without report.
C15_RunTerminates ==
  /\ (pc = "syncing") ~> (pc = "idle")
  /\ [](RunEnded =>
         /\ \A c \in DOMAIN tasks : tasks[c].st = "done"
         /\ \A ck \in AllCalls : CallAt(ck).ret # "pending"
         /\ Flatten([c \in DOMAIN visited |-> Flatten(visited[c])])
               = Range(Cardinality(DOMAIN cacheContent.items))
         /\ (outcome = "done" => disk = cacheContent)
         /\ (outcome = "finalSaveFailed" => saveErr))

\* A run of two chunk tasks has ended with its report after a rejected and an
\* acknowledged commit call.
C15_Witness ==
  /\ outcome = "done"
  /\ Len(tasks) = 2
  /\ \E ck \in AllCalls : CallAt(ck).ret = "err"
  /\ \E ck \in AllCalls : CallAt(ck).ret = "ok"
  /\ ~Report.successful

\* The last index of batch b.
Last(b) == b[Len(b)]

\* C16: within one chunk task the batches are committed one after the other
\* in increasing index order: only the last call the task issued can be in
\* flight, each call starts after the last index of the call before it, and
\* every batch of the chunk before it has been reached; the calls of
\* different chunk tasks are not ordered.
C16_SequentialWithinChunk ==
  InSync =>
    \A c \in DOMAIN calls :
       /\ \A k \in 1..(Len(calls[c]) - 1) :
             /\ calls[c][k].ret # "pending"
             /\ Last(calls[c][k].indexes) < calls[c][k + 1].indexes[1]
       /\ \A k \in 1..Len(calls[c]) :
             \A i \in SeqToSet(tasks[c].slice) :
                i < calls[c][k].indexes[1] =>
                   \E v \in 1..Len(visited[c]) : i \in SeqToSet(visited[c][v])
       /\ Len(calls[c]) > 0 /\ Last(calls[c]).ret = "pending" =>
             tasks[c].st = "await"

\* Two chunk tasks have a call in flight at the same time, the first for its
\* second batch after its first call was rejected.
C16_Witness ==
  /\ pc = "syncing"
  /\ Len(calls) = 2
  /\ Len(calls[1]) = 2
  /\ calls[1][1].ret = "err"
  /\ calls[1][2].ret = "pending"
  /\ Len(calls[2]) = 1
  /\ calls[2][1].ret = "pending"

\* The calls chunk task c issued for batch b.
CallsFor(c, b) == {k \in 1..IssuedBy(calls, c) : calls[c][k].indexes = b}

\* C17: in one run a batch whose indices were all onChain when it was reached
\* gets no commit call and every other batch reached gets exactly one,
\* whatever the calls return; when the run ends every batch has been reached.
C17_ExactlyOneCallPerPendingBatch ==
  InSync =>
    /\ \A c \in DOMAIN visited : \A v \in 1..Len(visited[c]) :
          Cardinality(CallsFor(c, visited[c][v])) =
             IF SeqToSet(visited[c][v]) \subseteq startOnChain THEN 0 ELSE 1
    /\ \A c \in DOMAIN calls : \A k \in 1..Len(calls[c]) :
          \E v \in 1..Len(visited[c]) : visited[c][v] = calls[c][k].indexes
    /\ RunEnded =>
          UNION {UNION {SeqToSet(visited[c][v]) : v \in 1..Len(visited[c])} :
                   c \in DOMAIN visited}
             = DOMAIN cacheContent.items

\* A finished run of three batches: the first was partly onChain and its call
\* was rejected, the second got its call all the same, and the third, of the
\* other chunk task, was all onChain and got no call.
C17_Witness ==
  /\ RunEnded
  /\ Len(visited) = 2
  /\ Len(visited[1]) = 2
  /\ Len(calls[1]) = 2
  /\ calls[1][1].ret = "err"
  /\ SeqToSet(calls[1][1].indexes) \cap startOnChain # {}
  /\ calls[1][2].ret = "ok"
  /\ Len(visited[2]) = 1
  /\ SeqToSet(visited[2][1]) \subseteq startOnChain
  /\ Len(calls[2]) = 0

\* C18: marking a batch and the save that follows are one uninterrupted piece
\* of code: whenever the cache file changes it equals the cache object of that
\* moment and holds the marks of every acknowledged batch of the run, and an
\* acknowledged commit whose save did not throw leaves the file equal to the
\* cache object, also while other chunk tasks have calls in flight.
C18_SnapshotIsCache ==
  [][/\ disk' # disk =>
          /\ disk' = cacheContent'
          /\ AckedSet' \subseteq OnChainSet(disk')
     /\ \A ck \in AllCalls :
          (Acknowledged(ck[1], ck[2]) /\ ~saveErr') => disk' = cacheContent']_vars

\* The batch of one chunk task is marked and saved while the call of another
\* chunk task is in flight.
C18_Witness ==
  /\ pc = "syncing"
  /\ ~saveErr
  /\ \E c, d \in DOMAIN calls :
        /\ c # d
        /\ Len(calls[c]) > 0 /\ calls[c][Len(calls[c])].ret = "pending"
        /\ Len(calls[d]) > 0 /\ calls[d][1].ret = "ok"
        /\ \A i \in SeqToSet(calls[d][1].indexes) : disk.items[i].onChain
        /\ \E i \in SeqToSet(calls[d][1].indexes) : i \notin startOnChain
  /\ disk = cacheContent

\* C19: a batch with an index not yet onChain is submitted whole: the request
\* is for a batch the task reached, its start index is the first index of the
\* batch, and it carries in index order the (uri, name) pair of every index of
\* the batch, those already onChain included.
C19_BatchSubmittedInFull ==
  InSync =>
    \A ck \in AllCalls :
       LET r == CallAt(ck) IN
       /\ \E v \in 1..Len(visited[ck[1]]) : visited[ck[1]][v] = r.indexes
       /\ r.ind = r.indexes[1]
       /\ Len(r.configs) = Len(r.indexes)
       /\ \A k \in 1..Len(r.indexes) :
             /\ r.configs[k].uri = disk.items[r.indexes[k]].link
             /\ r.configs[k].name = disk.items[r.indexes[k]].name

\* A request for a batch whose first index was already onChain and whose
\* second was pending: it starts at the first and carries both pairs.
C19_Witness ==
  /\ InSync
  /\ \E ck \in AllCalls :
        LET r == CallAt(ck) IN
        /\ Len(r.indexes) = 2
        /\ r.indexes[1] \in startOnChain
        /\ r.indexes[2] \notin startOnChain
        /\ r.ind = r.indexes[1]
        /\ Len(r.configs) = 2

\* Cache b differs from cache a in the onChain and verifyRun flags at most.
SameButFlags(a, b) ==
  /\ b.program = a.program
  /\ b.authority = a.authority
  /\ DOMAIN b.items = DOMAIN a.items
  /\ Keys(b.items) = Keys(a.items)
  /\ \A i \in DOMAIN a.items :
        /\ b.items[i].name = a.items[i].name
        /\ b.items[i].link = a.items[i].link

\* C20: a step of addConfigLines, its start on the loaded cache or the
\* continuation of a commit call, acknowledged or rejected, with saves that
\* work or throw, changes in the cache object and in the cache file nothing
\* but onChain and verifyRun flags.
C20_FrameOfSync ==
  [][/\ (pc = "idle" /\ lastCmd' = "sync") =>
          /\ SameButFlags(disk, disk')
          /\ SameButFlags(disk, cacheContent')
     /\ pc = "syncing" =>
          /\ SameButFlags(disk, disk')
          /\ outcome' # "crashed" => SameButFlags(cacheContent, cacheContent')]_vars

\* A run with an acknowledged and a rejected commit call has ended: the
\* committed records are onChain in the file with their name and link.
C20_Witness ==
  /\ outcome = "done"
  /\ \E ck \in AllCalls : CallAt(ck).ret = "err"
  /\ \E i \in AckedSet \ startOnChain :
        /\ disk.items[i].onChain
        /\ disk.items[i].name = <<"name", i>>
        /\ disk.items[i].link = <<"link", i>>
  /\ disk.program.handle # 0

====
